---- MODULE Spec2Model ----
(***************************************************************************)
(* Background job orchestration and live progress streaming of the WebUI:  *)
(* the job registry, the validation lock and the sweeper (jobManager), the *)
(* validation launchers (POST /api/validate, triggerBackgroundValidation), *)
(* the sort launcher (POST /api/sort) and the progress stream (GET         *)
(* .../stream/[jobId]).                                                    *)
(*                                                                         *)
(* Job objects live in a heap (jobs) because the callbacks of a launch     *)
(* close over the Job object itself, while the registry (activeJobs) maps  *)
(* an id to whichever object was set last.                                 *)
(***************************************************************************)
EXTENDS Integers, Sequences, FiniteSets, TLC

\* ------------------------------------------------------------- bounds
\* Job objects the heap holds (launches that reach "new Job").
MaxJobs == 3
\* Job objects each specification creates.
LifecycleJobs == 2
LockJobs == 3
QuietJobs == 2
StreamJobs == 1
SortJobs == 3
\* Events a job of the sort specification holds before output stops.
SortEvents == 1
ClientJobs == 2
RunJobs == 1
ParseJobs == 1
ErrJobs == 1
ArgsJobs == 2
InjectJobs == 1
SaveJobs == 2
\* Data changes saved through form actions.
MaxSaves == 2
\* Observer connections of the progress stream.
MaxObs == 2
\* Events a job record may hold before process output is no longer drawn.
MaxEvents == 2
\* The clock advances in steps of TickUnit minutes up to MaxTime.
TickUnit == 15
MaxTime == 46
\* POST /api/validate requests suspended in "await request.json()".
MaxAwait == 1
\* Tokens an unterminated line (stdoutBuffer) and stderrBuffer may hold.
MaxLine == 1
MaxStderr == 2
\* Tokens a process writes to stdout in all.
MaxWritten == 6

\* ----------------------------------------------------- program constants
\* Minutes; the code states them in milliseconds.
JobTimeout == 30
Retention == 5
\* The registry key of every validation job; sort job k has key k (its UUID).
ValidationCurrent == 0

Objs == 1..MaxJobs
JobIds == 0..MaxJobs
Observers == 1..MaxObs
\* activeJobs.get(id) === undefined
Absent == 0
\* job.endTime === undefined
Unset == 0
\* A response body without a jobId
NoId == -1
\* The stream key the reconnecting client asks for: 'current'
CurrentParam == -1

\* ------------------------------------------------------ process output
\* Output text is a sequence of tokens: "P1","P2" the text of a JSON object
\* with type 'progress'; "E" of an object with an 'errors' field; "S" of an
\* object with a 'stats' field; "J" of any other JSON object; "x" text that
\* is no JSON; "w" white space; "n" the newline; "T" the text of an object
\* with type 'complete' and neither field. "Ph", "Pt" are the bytes of
\* one more progress object in two parts, cut inside a multi-byte character
\* of its message: "Ph" ends with the first bytes of the character, "Pt"
\* starts with the rest.
JsonTokens == {"P1", "P2", "E", "S", "J", "T"}
\* A test that takes every object with a type field.
TypedTokens == {"P1", "P2", "P3", "P3x", "T"}

\* Parsed objects with type 'progress': of "P1", of "P2", of "Ph" "Pt" ("P3"),
\* and of "Ph" "Pt" with U+FFFD in place of the cut character ("P3x").
ProgressTokens == {"P1", "P2", "P3", "P3x"}

\* parsed.type
TypeOf(v) ==
    IF v = "T" THEN "complete"
    ELSE IF v \in {"E", "S", "J"} THEN "none"
    ELSE "progress"

\* code of 'close': 0 clean, 1 findings, 2 failure, SignalCode for null
\* (ended by a signal), SpawnErrno for a process that never started.
SignalCode == -1
SpawnErrno == -2
ExitCodes == {0, 1, 2, SignalCode}
NoCode == -9
SpawnOutcomes == {"ok", "enoent", "throw"}

\* data.toString() of one chunk: UTF-8 decoding of that chunk alone. Bytes of
\* a character that the chunk holds only in part decode to U+FFFD ("Phx",
\* "xPt"); a chunk that holds "Ph" "Pt" side by side decodes them intact.
Decode(chunk) ==
    [i \in 1..Len(chunk) |->
       IF chunk[i] = "Ph" /\ ~(i < Len(chunk) /\ chunk[i + 1] = "Pt")
       THEN "Phx"
       ELSE IF chunk[i] = "Pt" /\ ~(i > 1 /\ chunk[i - 1] = "Ph")
       THEN "xPt"
       ELSE chunk[i]]

RECURSIVE Split(_)
\* String.prototype.split('\n')
Split(s) ==
    IF \A i \in 1..Len(s) : s[i] # "n"
    THEN <<s>>
    ELSE LET i == CHOOSE k \in 1..Len(s) :
                     s[k] = "n" /\ \A m \in 1..(k - 1) : s[m] # "n"
         IN <<SubSeq(s, 1, i - 1)>> \o Split(SubSeq(s, i + 1, Len(s)))

RECURSIVE Trim(_)
\* String.prototype.trim()
Trim(s) ==
    IF s = <<>> THEN s
    ELSE IF Head(s) \in {"w", "n"} THEN Trim(Tail(s))
    ELSE IF s[Len(s)] \in {"w", "n"} THEN Trim(SubSeq(s, 1, Len(s) - 1))
    ELSE s

\* JSON.parse(text): the value, or "fail" where it throws.
JsonParse(text) ==
    LET t == Trim(text)
    IN IF Len(t) = 1 /\ t[1] \in JsonTokens THEN t[1]
       ELSE IF t = <<"Ph", "Pt">> THEN "P3"
       ELSE IF t = <<"Phx", "xPt">> THEN "P3x"
       ELSE "fail"

\* A marker test that takes either field for a job of either kind.
HasEitherMarker(v, type) == v = "E" \/ v = "S"

\* parsed.errors !== undefined (validation), parsed.stats !== undefined (sort)
HasResultMarker(v, type) ==
    \/ type = "validation" /\ v = "E"
    \/ type = "sort" /\ v = "S"

\* ------------------------------------------------------------- events
ProgressEvent(v) == [type |-> "progress", val |-> v, code |-> NoCode, stderr |-> <<>>]

\* job.events.push(parsed): the parsed object as it is
ParsedEvent(v) == [ProgressEvent(v) EXCEPT !.type = TypeOf(v)]
CompleteEvent(r) == [type |-> "complete", val |-> r, code |-> NoCode, stderr |-> <<>>]
SpawnErrorEvent == [type |-> "error", val |-> "spawn", code |-> NoCode, stderr |-> <<>>]

\* An exit error event that leaves the diagnostic text out.
ExitErrorEventBare(c, e) ==
    [type |-> "error", val |-> "exit", code |-> c, stderr |-> <<>>]

ExitErrorEvent(c, e) == [type |-> "error", val |-> "exit", code |-> c, stderr |-> e]
TimeoutEvent == [type |-> "error", val |-> "timeout", code |-> NoCode, stderr |-> <<>>]

Terminal(status) == status = "complete" \/ status = "error"

VARIABLES
    validationLock, \* jobManager: let validationLock
    activeJobs,     \* jobManager: Map id -> Job (here: id -> heap index)
    jobs,           \* heap of Job objects
    closure,        \* per launch: stdoutBuffer, stderrBuffer, finalResult
    child,          \* per launch: the external process
    nextObj,        \* next free heap index
    now,            \* Date.now(), minutes
    awaiting,       \* POST /api/validate calls suspended in request.json()
    serverFault,    \* an exception no handler caught reached the process
    releases,       \* history: releaseValidationLock calls per launch
    reply,          \* what the request handled last answered its caller
    written,        \* history: per launch, the stdout text kept for it
    store,          \* the data files: the version written last, and the
                    \* form actions between their write and their trigger
    seen,           \* history: the data version each launch started on
    argv,           \* per launch: the arguments spawn('python3', args) got
    sse,            \* one useSSE() instance of the client
    obs             \* progress stream connections

vars == <<validationLock, activeJobs, jobs, closure, child, nextObj, now,
          awaiting, serverFault, releases, reply, written, store, seen,
          argv, sse, obs>>

NoJob ==
    [id |-> Absent, type |-> "none", startTime |-> 0, status |-> "none",
     events |-> <<>>, process |-> "unset", result |-> "unset", endTime |-> Unset]

\* A record that starts with the time of its creation as endTime.
NewJobEnded(id, type, t) ==
    [id |-> id, type |-> type, startTime |-> t, status |-> "running",
     events |-> <<>>, process |-> "unset", result |-> "unset", endTime |-> t]

\* const job: Job = { id, type, startTime: Date.now(), status: 'running', events: [] }
NewJob(id, type, t) ==
    [id |-> id, type |-> type, startTime |-> t, status |-> "running",
     events |-> <<>>, process |-> "unset", result |-> "unset", endTime |-> Unset]

NoClosure == [stdoutBuffer |-> <<>>, stderrBuffer |-> <<>>, finalResult |-> "null"]
NoChild == [state |-> "none", killed |-> FALSE]
\* One connection: its job, eventIndex, the events enqueued so far (sent),
\* whether the feed is open, whether the poll timer runs; replayed is history,
\* the number of events start() replayed.
NoObs ==
    [job |-> Absent, eventIndex |-> 0, sent |-> <<>>, state |-> "idle",
     timer |-> FALSE, replayed |-> 0]

\* The answer of a handler: its operation, the HTTP status (or the value
\* triggerBackgroundValidation resolved to), and the job fields of the body.
Reply(op, code, id, start, status) ==
    [op |-> op, code |-> code, jobId |-> id, startTime |-> start,
     status |-> status]

NoReply == Reply("none", "none", NoId, 0, "none")

\* EventSource objects one useSSE() instance may construct.
MaxSources == 3

Sources == 1..MaxSources

\* The handlers a caller may pass to connect.
HandlerNames == {"onProgress", "onComplete", "onError"}

\* What a message's data may be: the three event types the hook dispatches,
\* JSON of another type, and text JSON.parse rejects.
MessageData == {"progress", "complete", "error", "other", "garbage"}

\* No message was delivered yet.
NoDispatch == [src |-> 0, data |-> "none", outcome |-> "none"]

\* The hook before connect: eventSource is null and nothing was constructed.
\* ready[e] is the readyState of the e-th EventSource ("open" stands for
\* both CONNECTING and OPEN: the browser still holds the connection or
\* re-opens it), handlers[e] the handlers its callbacks closed over.
NoSse ==
    [eventSource |-> 0,
     made |-> 0,
     ready |-> [e \in Sources |-> "none"],
     handlers |-> [e \in Sources |-> {}],
     last |-> NoDispatch]


Init ==
    /\ validationLock = FALSE
    /\ activeJobs = [id \in JobIds |-> Absent]
    /\ jobs = [o \in Objs |-> NoJob]
    /\ closure = [o \in Objs |-> NoClosure]
    /\ child = [o \in Objs |-> NoChild]
    /\ nextObj = 1
    /\ now = 1
    /\ awaiting = 0
    /\ serverFault = FALSE
    /\ releases = [o \in Objs |-> 0]
    /\ reply = NoReply
    /\ written = [o \in Objs |-> <<>>]
    /\ store = [version |-> 0, pending |-> 0]
    /\ seen = [o \in Objs |-> 0]
    /\ argv = [o \in Objs |-> <<>>]
    /\ sse = NoSse
    /\ obs = [o \in Observers |-> NoObs]

\* ------------------------------------------------------------ the lock
\* An acquire that succeeds whatever the lock is.
tryAcquireAlways == TRUE

\* tryAcquireValidationLock(): what it returns
tryAcquireValidationLock == ~validationLock

\* A release that leaves the lock as it is.
releaseKeepsLock == validationLock

\* releaseValidationLock(): the value it leaves in validationLock
releaseValidationLock == FALSE

\* ------------------------------------------------------------ launching
\* const existingJob = activeJobs.get(jobId);
\* if (existingJob && terminal) activeJobs.delete(jobId);
DeleteIfTerminal(reg, id) ==
    IF reg[id] # Absent /\ Terminal(jobs[reg[id]].status)
    THEN [reg EXCEPT ![id] = Absent]
    ELSE reg

\* spawn('python3', args, ...): a live child, a child whose 'error' is still
\* to be emitted (ENOENT and the like), or a synchronous throw (no child).
Spawned(outcome) ==
    [state |-> CASE outcome = "ok" -> "running"
                 [] outcome = "enoent" -> "failing"
                 [] OTHER -> "none",
     killed |-> FALSE]

\* const args = ['-m', 'ofd', 'validate', '--json', '--progress'], and the
\* flag POST /api/validate pushes for the type of the request body.
ValidateBaseArgs == <<"-m", "ofd", "validate", "--json", "--progress">>

RequestTypes ==
    {"full", "json_files", "logo_files", "folder_names", "store_ids", "other"}

\* A launcher that passes no filter flag whatever the type.
ValidateArgsUnfiltered(type) == ValidateBaseArgs

ValidateArgs(type) ==
    ValidateBaseArgs \o
        (CASE type = "json_files" -> <<"--json-files">>
           [] type = "logo_files" -> <<"--logo-files">>
           [] type = "folder_names" -> <<"--folder-names">>
           [] type = "store_ids" -> <<"--store-ids">>
           [] OTHER -> <<>>)

\* triggerBackgroundValidation() takes no request: the full validation.
TriggerArgs == ValidateBaseArgs

\* POST /api/sort: args of the style_data script, '--dry-run' if dryRun,
\* '--validate' if runValidation.
SortArgs(dryRun, runValidation) ==
    <<"-m", "ofd", "script", "style_data", "--json", "--progress">>
        \o (IF dryRun THEN <<"--dry-run">> ELSE <<>>)
        \o (IF runValidation THEN <<"--validate">> ELSE <<>>)

\* The job record is created and registered, then the process is spawned and
\* its handle stored; a throwing spawn leaves the record without a handle.
CreateAndSpawn(reg, id, type, args, outcome) ==
    LET o == nextObj
        job == NewJob(id, type, now)
    IN /\ activeJobs' = [reg EXCEPT ![id] = o]
       /\ jobs' = [jobs EXCEPT ![o] =
                     IF outcome = "throw" THEN job
                     ELSE [job EXCEPT !.process = "handle"]]
       /\ closure' = [closure EXCEPT ![o] = NoClosure]
       /\ child' = [child EXCEPT ![o] = Spawned(outcome)]
       /\ nextObj' = o + 1
       /\ seen' = [seen EXCEPT ![o] = store.version]
       /\ argv' = [argv EXCEPT ![o] = args]

\* The body of triggerBackgroundValidation(): one synchronous run (the
\* function awaits nothing). It resolves false while the lock is held. A
\* throwing spawn rejects the promise; no handler releases the lock.
Trigger(outcome) ==
    /\ ~serverFault
    /\ IF ~tryAcquireValidationLock
       THEN /\ reply' = Reply("trigger", "false", NoId, 0, "none")
            /\ UNCHANGED <<validationLock, activeJobs, jobs, closure, child,
                           nextObj, seen, argv>>
       ELSE /\ nextObj <= MaxJobs
            /\ validationLock' = TRUE
            /\ CreateAndSpawn(DeleteIfTerminal(activeJobs, ValidationCurrent),
                              ValidationCurrent, "validation", TriggerArgs,
                              outcome)
            /\ reply' = Reply("trigger",
                              IF outcome = "throw" THEN "rejects" ELSE "true",
                              NoId, 0, "none")
    /\ UNCHANGED <<written, now, sse, awaiting, serverFault, releases, obs>>

\* triggerBackgroundValidation() called by anything but a form action
triggerBackgroundValidation(outcome) ==
    /\ Trigger(outcome)
    /\ UNCHANGED store

\* A form action up to its trigger call: "await createStore(form.data);
\* await refreshDatabase();" (and the like in the other routes) has written
\* the data files.
SaveData ==
    /\ ~serverFault
    /\ store.version < MaxSaves
    /\ store' = [version |-> store.version + 1, pending |-> store.pending + 1]
    /\ UNCHANGED <<validationLock, activeJobs, jobs, closure, child, nextObj,
                   now, sse, awaiting, serverFault, releases, reply, written, seen, argv,
                   obs>>

\* The form action goes on: triggerBackgroundValidation().catch(...)
SaveTrigger(outcome) ==
    /\ store.pending > 0
    /\ store' = [store EXCEPT !.pending = @ - 1]
    /\ Trigger(outcome)

\* POST /api/validate up to its first suspension: the lock check (409 while
\* the lock is held), then "await request.json()".
PostValidate ==
    /\ ~serverFault
    /\ IF ~tryAcquireValidationLock
       THEN /\ reply' = Reply("validate", "409", NoId, 0, "none")
            /\ UNCHANGED <<validationLock, awaiting>>
       ELSE /\ awaiting < MaxAwait
            /\ validationLock' = TRUE
            /\ awaiting' = awaiting + 1
            /\ UNCHANGED reply
    /\ UNCHANGED <<store, seen, argv, written, activeJobs, jobs, closure, child,
                   nextObj, now, sse, serverFault, releases, obs>>

\* POST /api/validate resumed with the body of the request: its type, or no
\* JSON at all. A body that is no JSON, or a throwing spawn, lands in the
\* catch: the lock is released and 500 returned.
PostValidateRequest(bodyOk, type, outcome) ==
    /\ ~serverFault
    /\ awaiting > 0
    /\ awaiting' = awaiting - 1
    /\ IF ~bodyOk
       THEN /\ validationLock' = releaseValidationLock
            /\ reply' = Reply("validate", "500", NoId, 0, "none")
            /\ UNCHANGED <<activeJobs, jobs, closure, child, nextObj, releases,
                           seen, argv>>
       ELSE /\ nextObj <= MaxJobs
            /\ CreateAndSpawn(DeleteIfTerminal(activeJobs, ValidationCurrent),
                              ValidationCurrent, "validation",
                              ValidateArgs(type), outcome)
            /\ IF outcome = "throw"
               THEN /\ validationLock' = releaseValidationLock
                    /\ releases' = [releases EXCEPT ![nextObj] = @ + 1]
                    /\ reply' = Reply("validate", "500", NoId, 0, "none")
               ELSE /\ reply' = Reply("validate", "200", ValidationCurrent,
                                      0, "none")
                    /\ UNCHANGED <<validationLock, releases>>
    /\ UNCHANGED <<store, written, now, sse, serverFault, obs>>

\* POST /api/validate with the body {} or {type: 'full'}
PostValidateResume(bodyOk, outcome) ==
    PostValidateRequest(bodyOk, "full", outcome)

\* POST /api/sort with the body {dryRun, runValidation}:
\* const jobId = randomUUID(); no lock.
PostSortRequest(outcome, dryRun, runValidation) ==
    /\ ~serverFault
    /\ nextObj <= MaxJobs
    /\ CreateAndSpawn(activeJobs, nextObj, "sort",
                      SortArgs(dryRun, runValidation), outcome)
    /\ reply' = IF outcome = "throw"
                THEN Reply("sort", "500", NoId, 0, "none")
                ELSE Reply("sort", "200", nextObj, 0, "none")
    /\ UNCHANGED <<store, written, validationLock, now, sse, awaiting, serverFault,
                   releases, obs>>

\* POST /api/sort with the body {}
PostSort(outcome) == PostSortRequest(outcome, FALSE, FALSE)

\* ------------------------------------------------------ stdout handler
RECURSIVE ProcessLines(_, _, _)
\* A loop that a line which fails to parse ends: the lines after it are
\* left unprocessed.
ProcessLinesUntilFailure(lines, type, st) ==
    IF lines = <<>> THEN st
    ELSE IF Trim(Head(lines)) # <<>> /\ JsonParse(Head(lines)) = "fail"
    THEN st
    ELSE LET parsed == JsonParse(Head(lines))
             next ==
                 IF Trim(Head(lines)) = <<>> THEN st
                 ELSE IF parsed \in ProgressTokens
                 THEN [st EXCEPT !.events = Append(@, ParsedEvent(parsed))]
                 ELSE IF HasResultMarker(parsed, type)
                 THEN [st EXCEPT !.finalResult = parsed]
                 ELSE st
         IN ProcessLines(Tail(lines), type, next)

\* for (const line of lines) { if (!line.trim()) continue; try { ... } catch {} }
\* st = [events, finalResult]
ProcessLines(lines, type, st) ==
    IF lines = <<>> THEN st
    ELSE LET line == Head(lines)
             parsed == JsonParse(line)
             next ==
                 IF Trim(line) = <<>> \/ parsed = "fail" THEN st
                 ELSE IF parsed \in ProgressTokens
                      THEN [st EXCEPT !.events = Append(@, ParsedEvent(parsed))]
                 ELSE IF HasResultMarker(parsed, type)
                      THEN [st EXCEPT !.finalResult = parsed]
                 ELSE st
         IN ProcessLines(Tail(lines), type, next)

\* pythonProcess.stdout.on('data', ...): [events, finalResult, stdoutBuffer]
OnStdoutData(type, events, cl, chunk) ==
    LET lines == Split(cl.stdoutBuffer \o Decode(chunk))
        st == ProcessLines(SubSeq(lines, 1, Len(lines) - 1), type,
                           [events |-> events, finalResult |-> cl.finalResult])
    IN [events |-> st.events, finalResult |-> st.finalResult,
        stdoutBuffer |-> lines[Len(lines)]]

StderrChunks == {<<"e">>}

\* A 'data' handler that pushes to the job the registry holds last instead
\* of the job of its own launch.
StdoutDataToLatest(j, chunk) ==
    /\ ~serverFault
    /\ child[j].state = "running"
    /\ LET t == nextObj - 1
           r == OnStdoutData(jobs[j].type, jobs[t].events, closure[j], chunk)
       IN /\ Len(r.events) <= MaxEvents
          /\ Len(r.stdoutBuffer) <= MaxLine
          /\ jobs' = [jobs EXCEPT ![t].events = r.events]
          /\ closure' = [closure EXCEPT ![j].finalResult = r.finalResult,
                                        ![j].stdoutBuffer = r.stdoutBuffer]
    /\ UNCHANGED <<store, seen, argv, written, validationLock, activeJobs, child,
                   nextObj, now, sse, awaiting, serverFault, releases, reply, obs>>

StdoutData(j, chunk) ==
    /\ ~serverFault
    /\ child[j].state = "running"
    /\ LET r == OnStdoutData(jobs[j].type, jobs[j].events, closure[j], chunk)
       IN /\ Len(r.events) <= MaxEvents
          /\ Len(r.stdoutBuffer) <= MaxLine
          /\ jobs' = [jobs EXCEPT ![j].events = r.events]
          /\ closure' = [closure EXCEPT ![j].finalResult = r.finalResult,
                                        ![j].stdoutBuffer = r.stdoutBuffer]
    /\ UNCHANGED <<store, seen, argv, written, validationLock, activeJobs, child,
                   nextObj, now, sse, awaiting, serverFault, releases, reply, obs>>

\* The same 'data' event where the history of the output is kept: written
\* records the chunk, up to MaxWritten tokens.
StdoutDataKept(j, chunk) ==
    /\ ~serverFault
    /\ child[j].state = "running"
    /\ LET r == OnStdoutData(jobs[j].type, jobs[j].events, closure[j], chunk)
       IN /\ Len(r.stdoutBuffer) <= MaxLine
          /\ jobs' = [jobs EXCEPT ![j].events = r.events]
          /\ closure' = [closure EXCEPT ![j].finalResult = r.finalResult,
                                        ![j].stdoutBuffer = r.stdoutBuffer]
    /\ Len(written[j]) + Len(chunk) <= MaxWritten
    /\ written' = [written EXCEPT ![j] = @ \o chunk]
    /\ UNCHANGED <<store, seen, argv, validationLock, activeJobs, child, nextObj,
                   now, sse, awaiting, serverFault, releases, reply, obs>>

\* pythonProcess.stderr.on('data', ...)
StderrData(j, chunk) ==
    /\ ~serverFault
    /\ child[j].state = "running"
    /\ Len(closure[j].stderrBuffer) + Len(chunk) <= MaxStderr
    /\ closure' = [closure EXCEPT ![j].stderrBuffer = @ \o Decode(chunk)]
    /\ UNCHANGED <<store, seen, argv, written, validationLock, activeJobs, jobs,
                   child, nextObj, now, sse, awaiting, serverFault, releases, reply,
                   obs>>

\* ------------------------------------------------- error and close handlers
\* An 'error' handler that does not write endTime.
OnErrorNoEndTime(job, t) ==
    [job EXCEPT !.status = "error",
                !.events = Append(@, SpawnErrorEvent)]

\* pythonProcess.on('error', ...) of the validation launchers
OnError(job, t) ==
    [job EXCEPT !.status = "error",
                !.events = Append(@, SpawnErrorEvent),
                !.endTime = t]

\* The 'error' event of a child that could not be started. The sort launcher
\* registers no 'error' listener: the emit throws in the serving process.
ProcError(j) ==
    /\ ~serverFault
    /\ child[j].state = "failing"
    /\ child' = [child EXCEPT ![j].state = "errored"]
    /\ IF jobs[j].type = "validation"
       THEN /\ jobs' = [jobs EXCEPT ![j] = OnError(@, now)]
            /\ validationLock' = releaseValidationLock
            /\ releases' = [releases EXCEPT ![j] = @ + 1]
            /\ UNCHANGED serverFault
       ELSE /\ serverFault' = TRUE
            /\ UNCHANGED <<jobs, validationLock, releases>>
    /\ UNCHANGED <<store, seen, argv, written, activeJobs, closure, nextObj, now, sse,
                   awaiting, reply, obs>>

\* A close handler that leaves the trailing buffer unread.
TrailingResultUnread(cl) == cl.finalResult

\* if (stdoutBuffer.trim()) { try { finalResult = JSON.parse(...) } catch {} }
TrailingResult(cl) ==
    IF Trim(cl.stdoutBuffer) # <<>> /\ JsonParse(cl.stdoutBuffer) # "fail"
    THEN JsonParse(cl.stdoutBuffer)
    ELSE cl.finalResult

\* if (code === 0 || code === 1)
CloseStatus(code) == IF code = 0 \/ code = 1 THEN "complete" ELSE "error"

\* pythonProcess.on('close', (code) => ...): the job record it leaves
OnClose(job, cl, code, t) ==
    LET finalResult == TrailingResult(cl)
    IN IF CloseStatus(code) = "complete"
       THEN [job EXCEPT !.status = "complete",
                        !.result = finalResult,
                        !.events = Append(@, CompleteEvent(finalResult)),
                        !.endTime = t]
       ELSE [job EXCEPT !.status = "error",
                        !.events = Append(@, ExitErrorEvent(code, cl.stderrBuffer)),
                        !.endTime = t]

\* Codes 'close' may carry: any exit code of a child that ran (a signalled
\* child may still have exited on its own first), the errno of one that did not.
CloseCodes(j) ==
    IF child[j].state = "errored" THEN {SpawnErrno}
    ELSE IF child[j].killed THEN ExitCodes
    ELSE ExitCodes \ {SignalCode}

ProcClose(j, code) ==
    /\ ~serverFault
    /\ child[j].state \in {"running", "errored"}
    /\ code \in CloseCodes(j)
    /\ child' = [child EXCEPT ![j].state = "closed"]
    /\ jobs' = [jobs EXCEPT ![j] = OnClose(@, closure[j], code, now)]
    /\ closure' = [closure EXCEPT ![j].finalResult = TrailingResult(closure[j])]
    /\ IF jobs[j].type = "validation"
       THEN /\ validationLock' = releaseValidationLock
            /\ releases' = [releases EXCEPT ![j] = @ + 1]
       ELSE UNCHANGED <<validationLock, releases>>
    /\ UNCHANGED <<store, seen, argv, written, activeJobs, nextObj, now, sse, awaiting,
                   serverFault, reply, obs>>

\* ------------------------------------------------------------- sweeper
\* An eviction test without the retention window.
SweepEvictsAtOnce(job, t) == job.endTime # Unset

\* if (job.endTime && now - job.endTime > 5 * 60 * 1000)
SweepEvicts(job, t) == job.endTime # Unset /\ t - job.endTime > Retention

\* A sweeper whose ceiling is twice the 30 minutes.
SweepTimesOutLate(job, t) ==
    job.status = "running" /\ t - job.startTime > 2 * JobTimeout

\* if (job.status === 'running' && now - job.startTime > 30 * 60 * 1000)
SweepTimesOut(job, t) == job.status = "running" /\ t - job.startTime > JobTimeout

\* A timeout branch that replaces the events by the timeout event.
OnTimeoutResetsEvents(job, t) ==
    [job EXCEPT !.status = "error",
                !.events = <<TimeoutEvent>>,
                !.endTime = t]

\* The timeout branch's writes to the job record.
OnTimeout(job, t) ==
    [job EXCEPT !.status = "error",
                !.events = Append(@, TimeoutEvent),
                !.endTime = t]

\* The objects the registry holds.
Registered == {activeJobs[id] : id \in JobIds} \ {Absent}

\* One run of the setInterval callback over activeJobs.entries(), at time t:
\* the jobs its timeout branch is taken for, and what it leaves in the
\* registry, the job records, the processes and the lock.
SweepTimedOut(t) == {o \in Registered : SweepTimesOut(jobs[o], t)}

SweepRegistry(t) ==
    [id \in JobIds |->
       IF activeJobs[id] # Absent /\ SweepEvicts(jobs[activeJobs[id]], t)
       THEN Absent ELSE activeJobs[id]]

SweepJobs(t) ==
    [o \in Objs |->
       IF o \in SweepTimedOut(t) THEN OnTimeout(jobs[o], t) ELSE jobs[o]]

\* if (job.process?.kill) job.process.kill('SIGTERM')
SweepChild(t) ==
    [o \in Objs |->
       IF o \in SweepTimedOut(t) /\ jobs[o].process = "handle"
       THEN [child[o] EXCEPT !.killed = TRUE] ELSE child[o]]

\* A timeout branch that releases the lock whatever the type of the job.
SweepLockAnyType(t) ==
    IF SweepTimedOut(t) # {} THEN releaseValidationLock ELSE validationLock

\* if (job.type === 'validation') releaseValidationLock()
SweepLock(t) ==
    IF \E o \in SweepTimedOut(t) : jobs[o].type = "validation"
    THEN releaseValidationLock ELSE validationLock

Sweep ==
    /\ ~serverFault
    /\ activeJobs' = SweepRegistry(now)
    /\ jobs' = SweepJobs(now)
    /\ child' = SweepChild(now)
    /\ validationLock' = SweepLock(now)
    /\ releases' =
           [o \in Objs |->
              IF o \in SweepTimedOut(now) /\ jobs[o].type = "validation"
              THEN releases[o] + 1 ELSE releases[o]]
    /\ UNCHANGED <<store, seen, argv, written, closure, nextObj, now, sse, awaiting,
                   serverFault, reply, obs>>

\* Time passes.
Tick ==
    /\ ~serverFault
    /\ now + TickUnit <= MaxTime
    /\ now' = now + TickUnit
    /\ UNCHANGED <<sse, store, seen, argv, written, validationLock, activeJobs, jobs,
                   closure, child, nextObj, awaiting, serverFault, releases,
                   reply, obs>>

\* ------------------------------------------------------- status query
\* A lookup that takes whatever job is registered under 'validation-current'.
getRegisteredValidationJob == activeJobs[ValidationCurrent]

\* getActiveValidationJob(): the first job of activeJobs.values() that is a
\* validation job in status running, or null (Absent).
getActiveValidationJob ==
    LET hits == {o \in Registered :
                    jobs[o].type = "validation" /\ jobs[o].status = "running"}
    IN IF hits = {} THEN Absent ELSE CHOOSE o \in hits : TRUE

\* GET /api/validate/status. The body is {running: false}, or {running: true,
\* jobId, startTime, status}: status is "none" in the first and the job's
\* status in the second.
StatusGet ==
    /\ ~serverFault
    /\ LET job == getActiveValidationJob
       IN reply' = IF job = Absent
                   THEN Reply("status", "200", NoId, 0, "none")
                   ELSE Reply("status", "200", jobs[job].id,
                              jobs[job].startTime, jobs[job].status)
    /\ UNCHANGED <<store, seen, argv, written, validationLock, activeJobs, jobs,
                   closure, child, nextObj, now, sse, awaiting, serverFault,
                   releases, obs>>

\* ------------------------------------------------------ progress stream
\* A send loop that starts at 0 whatever eventIndex is.
DeltaFromZero(events, eventIndex) == events

\* for (let i = eventIndex; i < job.events.length; i++) sendEvent(job.events[i])
Delta(events, eventIndex) == SubSeq(events, eventIndex + 1, Len(events))

\* A start() without the early close: it always starts the poll timer.
StreamStartAlwaysPolls(o) ==
    LET job == jobs[o]
    IN [job |-> o,
        sent |-> Delta(job.events, 0),
        eventIndex |-> Len(job.events),
        state |-> "open",
        timer |-> TRUE,
        replayed |-> Len(job.events)]

\* start(controller): replay, then close at once or start the poll timer.
StreamStart(o) ==
    LET job == jobs[o]
        done == Terminal(job.status)
    IN [job |-> o,
        sent |-> Delta(job.events, 0),
        eventIndex |-> Len(job.events),
        state |-> IF done THEN "closed" ELSE "open",
        timer |-> ~done,
        replayed |-> Len(job.events)]

\* A poll that checks the status before it forwards: on a terminal job it
\* closes without the final delta.
StreamPollClosesFirst(c) ==
    LET job == jobs[c.job]
    IN IF Terminal(job.status)
       THEN [c EXCEPT !.state = "closed", !.timer = FALSE]
       ELSE [c EXCEPT !.sent = @ \o Delta(job.events, c.eventIndex),
                      !.eventIndex = Len(job.events)]

\* The setInterval callback of one connection.
StreamPoll(c) ==
    LET job == jobs[c.job]
        done == Terminal(job.status)
    IN [c EXCEPT !.sent = @ \o Delta(job.events, c.eventIndex),
                 !.eventIndex = Len(job.events),
                 !.state = IF done THEN "closed" ELSE @,
                 !.timer = IF done THEN FALSE ELSE @]

\* A lookup that falls back to the job created last.
LookupOrLatest(id) ==
    IF id \in JobIds /\ activeJobs[id] # Absent THEN activeJobs[id]
    ELSE IF nextObj > 1 THEN nextObj - 1
    ELSE Absent

\* activeJobs.get(jobId)
Lookup(id) == IF id \in JobIds THEN activeJobs[id] ELSE Absent

\* GET .../stream/[jobId]: 404 'Job not found', or the event stream.
StreamConnect(k, id) ==
    /\ ~serverFault
    /\ obs[k].state = "idle"
    /\ IF Lookup(id) = Absent
       THEN /\ reply' = Reply("stream", "404", NoId, 0, "none")
            /\ UNCHANGED obs
       ELSE /\ reply' = Reply("stream", "200", NoId, 0, "none")
            /\ obs' = [obs EXCEPT ![k] = StreamStart(Lookup(id))]
    /\ UNCHANGED <<store, seen, argv, written, validationLock, activeJobs, jobs,
                   closure, child, nextObj, now, sse, awaiting, serverFault,
                   releases>>

\* checkValidationStatus() of the client once the status query has answered
\* running:true: sse.connect('/api/validate/stream/current', ...).
Reattach(k) ==
    /\ reply.op = "status"
    /\ reply.status = "running"
    /\ StreamConnect(k, CurrentParam)

PollTick(k) ==
    /\ ~serverFault
    /\ obs[k].timer
    /\ obs' = [obs EXCEPT ![k] = StreamPoll(@)]
    /\ UNCHANGED <<store, seen, argv, written, validationLock, activeJobs, jobs,
                   closure, child, nextObj, now, sse, awaiting, serverFault,
                   releases, reply>>

\* A cancel that also signals the job's process.
StreamCancelKillsJob(k) ==
    /\ ~serverFault
    /\ obs[k].state = "open"
    /\ obs' = [obs EXCEPT ![k].timer = FALSE, ![k].state = "cancelled"]
    /\ child' = [child EXCEPT ![obs[k].job].killed = TRUE]
    /\ UNCHANGED <<store, seen, argv, written, validationLock, activeJobs, jobs,
                   closure, nextObj, now, sse, awaiting, serverFault, releases,
                   reply>>

\* cancel(): the observer went away.
StreamCancel(k) ==
    /\ ~serverFault
    /\ obs[k].state = "open"
    /\ obs' = [obs EXCEPT ![k].timer = FALSE, ![k].state = "cancelled"]
    /\ UNCHANGED <<store, seen, argv, written, validationLock, activeJobs, jobs,
                   closure, child, nextObj, now, sse, awaiting, serverFault,
                   releases, reply>>

\* ------------------------------------------------------- specification
\* What the external process writes in one 'data' event of the lifecycle
\* specification: a progress line, a validation result line.
Chunks == {<<"P1", "n">>, <<"E", "n">>}

Launch ==
    \E outcome \in SpawnOutcomes :
        \/ nextObj <= LifecycleJobs /\ triggerBackgroundValidation(outcome)
        \/ nextObj <= LifecycleJobs /\ PostSort(outcome)
        \/ \E bodyOk \in BOOLEAN :
               nextObj <= LifecycleJobs /\ PostValidateResume(bodyOk, outcome)

Process ==
    \E j \in Objs :
        \/ \E chunk \in Chunks : StdoutData(j, chunk)
        \/ ProcError(j)
        \/ \E code \in ExitCodes \cup {SpawnErrno} : ProcClose(j, code)

\* The job lifecycle: launchers, process callbacks, sweeper, clock.
Next ==
    \/ Launch
    \/ PostValidate
    \/ Process
    \/ Sweep
    \/ Tick

Spec == Init /\ [][Next]_vars

\* The lock over LockJobs validation runs started by
\* triggerBackgroundValidation, whose processes write nothing.
LockLaunch ==
    /\ nextObj <= LockJobs
    /\ \E outcome \in SpawnOutcomes : triggerBackgroundValidation(outcome)

LockProcess ==
    \E j \in Objs :
        \/ ProcError(j)
        \/ \E code \in ExitCodes \cup {SpawnErrno} : ProcClose(j, code)

LockNext ==
    \/ LockLaunch
    \/ LockProcess
    \/ Sweep
    \/ Tick

LockSpec == Init /\ [][LockNext]_vars

\* The lock and the lifecycle of QuietJobs jobs from every launcher, whose
\* processes write nothing.
QuietLaunch ==
    \E outcome \in SpawnOutcomes :
        \/ nextObj <= QuietJobs /\ triggerBackgroundValidation(outcome)
        \/ nextObj <= QuietJobs /\ PostSort(outcome)
        \/ \E bodyOk \in BOOLEAN :
               nextObj <= QuietJobs /\ PostValidateResume(bodyOk, outcome)

QuietNext ==
    \/ QuietLaunch
    \/ PostValidate
    \/ LockProcess
    \/ Sweep
    \/ Tick

QuietSpec == Init /\ [][QuietNext]_vars

\* The progress stream over the lifecycle of StreamJobs jobs whose processes
\* write distinguishable progress lines.
StreamChunks == {<<"P1", "n">>, <<"P2", "n">>}

StreamLaunch ==
    \E outcome \in SpawnOutcomes :
        \/ nextObj <= StreamJobs /\ triggerBackgroundValidation(outcome)
        \/ nextObj <= StreamJobs /\ PostSort(outcome)

StreamProcess ==
    \E j \in Objs :
        \/ \E chunk \in StreamChunks : StdoutData(j, chunk)
        \/ ProcError(j)
        \/ \E code \in ExitCodes \cup {SpawnErrno} : ProcClose(j, code)

Stream ==
    \E k \in Observers :
        \/ \E id \in JobIds : StreamConnect(k, id)
        \/ PollTick(k)
        \/ StreamCancel(k)

StreamNext ==
    \/ StreamLaunch
    \/ StreamProcess
    \/ Sweep
    \/ Tick
    \/ Stream

StreamSpec == Init /\ [][StreamNext]_vars

\* Sort launches beside validation runs that start, with processes whose
\* lines tell them apart: process j writes progress line OwnToken(j) and the
\* result line of its kind.
OwnToken(j) == IF j % 2 = 1 THEN "P1" ELSE "P2"

OwnChunks(j) ==
    {<<OwnToken(j), "n">>,
     <<(IF jobs[j].type = "sort" THEN "S" ELSE "E"), "n">>}

SortLaunch ==
    \E outcome \in SpawnOutcomes :
        \/ nextObj <= SortJobs /\ PostSort(outcome)
        \/ /\ nextObj <= SortJobs
           /\ outcome = "ok"
           /\ triggerBackgroundValidation(outcome)

SortProcess ==
    \E j \in Objs :
        \/ \E chunk \in OwnChunks(j) :
               Len(jobs[j].events) < SortEvents /\ StdoutData(j, chunk)
        \/ ProcError(j)
        \/ \E code \in ExitCodes \cup {SpawnErrno} : ProcClose(j, code)

SortNext ==
    \/ SortLaunch
    \/ SortProcess

SortSpec == Init /\ [][SortNext]_vars

\* A client that asks for the status, and reconnects on running:true, while
\* jobs are launched, end, time out and are evicted.
ClientLaunch ==
    \E outcome \in SpawnOutcomes :
        \/ nextObj <= ClientJobs /\ triggerBackgroundValidation(outcome)
        \/ nextObj <= ClientJobs /\ PostSort(outcome)

ClientNext ==
    \/ ClientLaunch
    \/ LockProcess
    \/ Sweep
    \/ Tick
    \/ StatusGet
    \/ \E k \in Observers : Reattach(k)

ClientSpec == Init /\ [][ClientNext]_vars

\* Validation runs whose output is kept: the process writes progress lines
\* and result lines in chunks that end on a line or inside one.
RunChunks == {<<"P1", "n">>, <<"P2">>, <<"n">>, <<"E">>, <<"E", "n">>}

RunLaunch ==
    /\ nextObj <= RunJobs
    /\ \E outcome \in SpawnOutcomes : triggerBackgroundValidation(outcome)

RunProcess ==
    \E j \in Objs :
        \/ \E chunk \in RunChunks : StdoutDataKept(j, chunk)
        \/ ProcError(j)
        \/ \E code \in ExitCodes \cup {SpawnErrno} : ProcClose(j, code)

RunNext ==
    \/ RunLaunch
    \/ RunProcess
    \/ Sweep
    \/ Tick

RunSpec == Init /\ [][RunNext]_vars

\* Form actions that save data and trigger validation, beside the runs.
SaveLaunch ==
    /\ nextObj <= SaveJobs
    /\ \E outcome \in SpawnOutcomes : SaveTrigger(outcome)

SaveNext ==
    \/ SaveData
    \/ SaveLaunch
    \/ LockProcess
    \/ Sweep
    \/ Tick

SaveSpec == Init /\ [][SaveNext]_vars

\* Validation runs that may hang, with one observer of 'validation-current',
\* under the scheduling the code sets up: the sweeper's setInterval and each
\* connection's setInterval keep firing, and time passes.
LiveStream ==
    \/ StreamConnect(1, ValidationCurrent)
    \/ PollTick(1)

LiveNext ==
    \/ LockLaunch
    \/ LockProcess
    \/ Sweep
    \/ Tick
    \/ LiveStream

LiveSpec ==
    /\ Init
    /\ [][LiveNext]_vars
    /\ WF_vars(Sweep)
    /\ WF_vars(Tick)
    /\ WF_vars(PollTick(1))

\* The stdout handler over any output: one job of either kind whose process
\* writes tokens of every sort, delivered one or two at a time, or as two
\* whole lines at once.
ParseTokens == {"P1", "E", "S", "J", "x", "n", "Ph", "Pt"}

ParseChunks ==
    {<<a>> : a \in ParseTokens}
        \cup {<<a, b>> : a \in ParseTokens, b \in ParseTokens}
        \cup {<<"x", "n", "P1", "n">>}

ParseLaunch ==
    \E outcome \in SpawnOutcomes :
        \/ nextObj <= ParseJobs /\ triggerBackgroundValidation(outcome)
        \/ nextObj <= ParseJobs /\ PostSort(outcome)

ParseProcess ==
    \E j \in Objs :
        \/ \E chunk \in ParseChunks : StdoutDataKept(j, chunk)
        \/ ProcError(j)
        \/ \E code \in ExitCodes \cup {SpawnErrno} : ProcClose(j, code)

ParseNext ==
    \/ ParseLaunch
    \/ ParseProcess

ParseSpec == Init /\ [][ParseNext]_vars

\* Jobs of either kind whose processes write to the diagnostic channel, end
\* with any code, fail to start or hang until the sweeper ends them.
ErrChunks == StderrChunks \cup {<<"f">>}

ErrLaunch ==
    \E outcome \in SpawnOutcomes :
        \/ nextObj <= ErrJobs /\ triggerBackgroundValidation(outcome)
        \/ nextObj <= ErrJobs /\ PostSort(outcome)
        \/ \E bodyOk \in BOOLEAN :
               nextObj <= ErrJobs /\ PostValidateResume(bodyOk, outcome)

ErrProcess ==
    \E j \in Objs :
        \/ \E chunk \in ErrChunks : StderrData(j, chunk)
        \/ ProcError(j)
        \/ \E code \in ExitCodes \cup {SpawnErrno} : ProcClose(j, code)

ErrNext ==
    \/ ErrLaunch
    \/ PostValidate
    \/ ErrProcess
    \/ Sweep
    \/ Tick

ErrSpec == Init /\ [][ErrNext]_vars

\* Launches with request bodies of every sort.
ArgsLaunch ==
    \E outcome \in SpawnOutcomes :
        \/ nextObj <= ArgsJobs /\ triggerBackgroundValidation(outcome)
        \/ \E bodyOk \in BOOLEAN : \E type \in RequestTypes :
               nextObj <= ArgsJobs /\ PostValidateRequest(bodyOk, type, outcome)
        \/ \E dryRun \in BOOLEAN : \E runValidation \in BOOLEAN :
               /\ nextObj <= ArgsJobs
               /\ PostSortRequest(outcome, dryRun, runValidation)

ArgsNext ==
    \/ ArgsLaunch
    \/ PostValidate
    \/ LockProcess

ArgsSpec == Init /\ [][ArgsNext]_vars

\* Jobs whose processes write lines that look like terminal events, whole or
\* unterminated, beside progress lines, and end in every way.
InjectChunks == {<<"T", "n">>, <<"T">>, <<"P1", "n">>}

InjectLaunch ==
    \E outcome \in SpawnOutcomes :
        \/ nextObj <= InjectJobs /\ triggerBackgroundValidation(outcome)
        \/ nextObj <= InjectJobs /\ PostSort(outcome)

InjectProcess ==
    \E j \in Objs :
        \/ \E chunk \in InjectChunks : StdoutDataKept(j, chunk)
        \/ ProcError(j)
        \/ \E code \in ExitCodes \cup {SpawnErrno} : ProcClose(j, code)

InjectNext ==
    \/ InjectLaunch
    \/ InjectProcess
    \/ Sweep
    \/ Tick

InjectSpec == Init /\ [][InjectNext]_vars

\* ------------------------------------------------------- client: useSSE
\* disconnect(): closes the EventSource the hook holds and forgets it.
disconnect(c) ==
    IF c.eventSource # 0
    THEN [c EXCEPT !.ready[c.eventSource] = "closed", !.eventSource = 0]
    ELSE c

\* connect(url, handlers): disconnect(), then a new EventSource.
connect(c, hs) ==
    LET d == disconnect(c)
        e == c.made + 1
    IN  [d EXCEPT !.eventSource = e, !.made = e,
                  !.ready[e] = "open", !.handlers[e] = hs]

\* The handler onmessage picks for the data, "none" when it picks none.
HandlerFor(data, hs) ==
    IF data = "progress" /\ "onProgress" \in hs THEN "onProgress"
    ELSE IF data = "complete" /\ "onComplete" \in hs THEN "onComplete"
    ELSE IF data = "error" /\ "onError" \in hs THEN "onError"
    ELSE "none"

\* onmessage of EventSource e: everything sits in one try block, so a
\* handler that throws skips the disconnect() that follows it.
onmessage(c, e, data, throws) ==
    LET h == HandlerFor(data, c.handlers[e])
        out == IF h = "none" THEN "none"
               ELSE IF throws THEN "threw" ELSE "returned"
        d == IF h \in {"onComplete", "onError"} /\ ~throws
             THEN disconnect(c) ELSE c
    IN  [d EXCEPT !.last = [src |-> e, data |-> data, outcome |-> out]]

\* onerror of EventSource e: handlers.onError?.(error), then disconnect().
\* Nothing catches, so a handler that throws skips the disconnect().
onerror(c, e, throws) ==
    LET h == IF "onError" \in c.handlers[e] THEN "onError" ELSE "none"
        out == IF h = "none" THEN "none"
               ELSE IF throws THEN "threw" ELSE "returned"
        d == IF out = "threw" THEN c ELSE disconnect(c)
    IN  [d EXCEPT !.last = [src |-> e, data |-> "failure", outcome |-> out]]

serverVars ==
    <<validationLock, activeJobs, jobs, closure, child, nextObj, now,
      awaiting, serverFault, releases, reply, written, store, seen,
      argv, obs>>

\* A caller connects with the handlers hs.
SseConnect(hs) ==
    /\ sse.made < MaxSources
    /\ sse' = connect(sse, hs)
    /\ UNCHANGED serverVars

\* The browser delivers a message to EventSource e, which is not closed.
SseMessage(e, data, throws) ==
    /\ sse.ready[e] = "open"
    /\ sse' = onmessage(sse, e, data, throws)
    /\ UNCHANGED serverVars

\* The browser reports a connection error on EventSource e.
SseError(e, throws) ==
    /\ sse.ready[e] = "open"
    /\ sse' = onerror(sse, e, throws)
    /\ UNCHANGED serverVars

\* A caller disconnects.
SseDisconnect ==
    /\ sse' = disconnect(sse)
    /\ UNCHANGED serverVars

SseNext ==
    \/ \E hs \in SUBSET HandlerNames : SseConnect(hs)
    \/ \E e \in Sources, data \in MessageData, throws \in BOOLEAN :
          SseMessage(e, data, throws)
    \/ \E e \in Sources, throws \in BOOLEAN : SseError(e, throws)
    \/ SseDisconnect

SseSpec == Init /\ [][SseNext]_vars

\* ---------------------------------------------------------------- claims
RunningValidations ==
    {o \in Objs : jobs[o].type = "validation" /\ jobs[o].status = "running"}

\* C1: at most one validation job is in status running at any instant, and
\* while one is running the lock is held, so that every launch attempt
\* receives the conflict signal (409 / false).
C1_MutualExclusion ==
    /\ Cardinality(RunningValidations) <= 1
    /\ RunningValidations # {} => validationLock /\ ~tryAcquireValidationLock

\* C2: releaseValidationLock runs exactly once on behalf of every validation
\* launch: never twice, and once when the job is terminal.
C2_ReleasedExactlyOnce ==
    \A o \in Objs :
        jobs[o].type = "validation" =>
            /\ releases[o] <= 1
            /\ Terminal(jobs[o].status) => releases[o] = 1

\* A validation job leaves status running in this step.
TerminalTransition(o) ==
    /\ jobs[o].type = "validation"
    /\ jobs[o].status = "running"
    /\ Terminal(jobs'[o].status)

\* C3: right after any terminal transition of a validation job the lock is
\* free, and a launch attempt made with the lock free acquires it and starts
\* a running job under 'validation-current' (POST /api/validate: acquires it
\* and goes on to read the request).
C3_LockLiveness ==
    /\ [][(\E o \in Objs : TerminalTransition(o)) => ~validationLock']_vars
    /\ [][\A outcome \in SpawnOutcomes :
            (~validationLock /\ triggerBackgroundValidation(outcome)) =>
                /\ validationLock'
                /\ activeJobs'[ValidationCurrent] = nextObj
                /\ jobs'[nextObj].status = "running"]_vars
    /\ [][(~validationLock /\ PostValidate) =>
            validationLock' /\ awaiting' = awaiting + 1]_vars

\* A validation run ended and released the lock once, and a later run holds
\* the lock and is running under 'validation-current'.
C3_Witness ==
    \E o1, o2 \in Objs :
        /\ o1 < o2
        /\ jobs[o1].type = "validation" /\ Terminal(jobs[o1].status)
        /\ releases[o1] = 1
        /\ jobs[o2].type = "validation" /\ jobs[o2].status = "running"
        /\ jobs[o2].startTime >= jobs[o1].endTime
        /\ activeJobs[ValidationCurrent] = o2
        /\ validationLock

\* C4: a job's status only ever changes running -> complete or
\* running -> error (and none -> running when the record is created); a
\* terminal job never changes status again.
C4_StatusMonotonic ==
    [][\A o \in Objs :
         jobs'[o].status # jobs[o].status =>
             \/ jobs[o].status = "none" /\ jobs'[o].status = "running"
             \/ jobs[o].status = "running" /\ Terminal(jobs'[o].status)]_vars

\* C5: every terminal job has endTime set and its process handle cleared.
C5_TerminalJobClosed ==
    \A o \in Objs :
        Terminal(jobs[o].status) =>
            jobs[o].endTime # Unset /\ jobs[o].process = "unset"

IsPrefix(a, b) == Len(a) <= Len(b) /\ SubSeq(b, 1, Len(a)) = a

TerminalEvent(e) == e.type = "complete" \/ e.type = "error"

\* C6: on every connection the events sent so far are a prefix of the
\* attached job's events: from index 0, in append order, without gap or
\* duplicate, and eventIndex counts them.
C6_SentIsPrefix ==
    \A k \in Observers :
        obs[k].job # Absent =>
            /\ IsPrefix(obs[k].sent, jobs[obs[k].job].events)
            /\ obs[k].eventIndex = Len(obs[k].sent)

\* A connection made after one event or more had been appended has received
\* those and later ones, two different progress events among them.
C6_Witness ==
    \E k \in Observers :
        /\ obs[k].replayed >= 1
        /\ Len(obs[k].sent) > obs[k].replayed
        /\ \E i, j \in 1..Len(obs[k].sent) :
               /\ i < j
               /\ obs[k].sent[i].type = "progress"
               /\ obs[k].sent[j].type = "progress"
               /\ obs[k].sent[i] # obs[k].sent[j]

\* C7: a connect to a job that is already terminal sends every event of its
\* events once, in order, and closes the feed at once with no poll timer; a
\* closed feed is sent nothing more.
C7_TerminalReplay ==
    /\ [][\A k \in Observers :
            (/\ obs[k].state = "idle"
             /\ obs'[k].state # "idle"
             /\ Terminal(jobs[obs'[k].job].status)) =>
                /\ obs'[k].sent = jobs[obs'[k].job].events
                /\ obs'[k].state = "closed"
                /\ ~obs'[k].timer]_vars
    /\ [][\A k \in Observers :
            obs[k].state = "closed" => obs'[k] = obs[k]]_vars

\* A connection to a terminal job with two events or more: all were replayed
\* by start() and the feed is closed.
C7_Witness ==
    \E k \in Observers :
        /\ obs[k].state = "closed"
        /\ obs[k].replayed = Len(obs[k].sent)
        /\ Len(obs[k].sent) >= 2
        /\ obs[k].sent = jobs[obs[k].job].events

\* C8: the feed of a connection to a running job closes only once the job is
\* terminal, and at the moment it closes the connection has been sent every
\* event of the job, a terminal event among them; a closed feed's job is
\* never running.
C8_CloseAfterTerminal ==
    /\ [][\A k \in Observers :
            (obs[k].state = "open" /\ obs'[k].state = "closed") =>
                /\ Terminal(jobs[obs[k].job].status)
                /\ obs'[k].sent = jobs'[obs[k].job].events
                /\ \E i \in 1..Len(obs'[k].sent) :
                       TerminalEvent(obs'[k].sent[i])]_vars
    /\ [](\A k \in Observers :
            obs[k].state = "closed" => Terminal(jobs[obs[k].job].status))

\* A connection made while the job was running was closed by a poll, after
\* the progress events and the terminal event.
C8_Witness ==
    \E k \in Observers :
        /\ obs[k].state = "closed"
        /\ obs[k].replayed < Len(obs[k].sent)
        /\ Len(obs[k].sent) >= 2
        /\ obs[k].sent[1].type = "progress"
        /\ TerminalEvent(obs[k].sent[Len(obs[k].sent)])

\* C9: a close with exit code 0 or 1 leaves the job complete with a non-null
\* result; a close with any other code leaves it in status error.
C9_ExitCodeMapping ==
    [][\A j \in Objs : \A code \in ExitCodes \cup {SpawnErrno} :
         ProcClose(j, code) =>
             IF code = 0 \/ code = 1
             THEN /\ jobs'[j].status = "complete"
                  /\ jobs'[j].result \notin {"unset", "null"}
             ELSE jobs'[j].status = "error"]_vars

\* C10: whatever the state a sweeper tick runs in, every registry job that is
\* running and started more than 30 minutes ago is left in status error, with
\* a timeout error event appended and endTime set to the tick's time; its
\* process, if the record holds one, is sent SIGTERM; the lock is released if
\* it is a validation job.
C10_TimeoutEnforced ==
    \A o \in Registered :
        (jobs[o].status = "running" /\ now - jobs[o].startTime > JobTimeout) =>
            /\ SweepJobs(now)[o].status = "error"
            /\ SweepJobs(now)[o].events = Append(jobs[o].events, TimeoutEvent)
            /\ SweepJobs(now)[o].endTime = now
            /\ jobs[o].process = "handle" => SweepChild(now)[o].killed
            /\ jobs[o].type = "validation" => SweepLock(now) = FALSE

\* A sweeper tick has timed out a validation job whose process was alive: the
\* job is in error with the timeout event last, the process was signalled, the
\* lock is free.
C10_Witness ==
    \E o \in Registered :
        /\ jobs[o].type = "validation"
        /\ jobs[o].status = "error"
        /\ jobs[o].events # <<>>
        /\ jobs[o].events[Len(jobs[o].events)] = TimeoutEvent
        /\ jobs[o].endTime = now
        /\ child[o].state = "running" /\ child[o].killed
        /\ ~validationLock

\* C11: a validation launch attempt made while the lock is held is answered
\* in the same step (false from triggerBackgroundValidation, 409 from POST
\* /api/validate), suspends nothing for later, creates no job and no process,
\* and leaves the lock, the registry and every job record as they were.
C11_ContentionRejected ==
    /\ [][\A outcome \in SpawnOutcomes :
            (validationLock /\ triggerBackgroundValidation(outcome)) =>
                /\ reply' = Reply("trigger", "false", NoId, 0, "none")
                /\ UNCHANGED <<validationLock, activeJobs, jobs, closure,
                               child, nextObj, awaiting, releases>>]_vars
    /\ [][(validationLock /\ PostValidate) =>
            /\ reply' = Reply("validate", "409", NoId, 0, "none")
            /\ UNCHANGED <<validationLock, activeJobs, jobs, closure, child,
                           nextObj, awaiting, releases>>]_vars

\* POST /api/validate has just answered 409 while a validation job is running
\* under 'validation-current' and the lock is held.
C11_Witness ==
    /\ reply = Reply("validate", "409", NoId, 0, "none")
    /\ validationLock
    /\ activeJobs[ValidationCurrent] # Absent
    /\ jobs[activeJobs[ValidationCurrent]].status = "running"
    /\ awaiting = 0

C13_SpawnFailure ==
    [][\A j \in Objs :
         (ProcError(j) /\ jobs[j].status = "running") =>
             /\ jobs'[j].status = "error"
             /\ jobs'[j].events = Append(jobs[j].events, SpawnErrorEvent)
             /\ jobs'[j].endTime = now
             /\ jobs[j].type = "validation" => ~validationLock']_vars

\* C14: no failure of a job reaches the serving process as an exception that
\* no handler caught.
C14_NoServerFault == ~serverFault

\* C15: the status query answers running:true, with the id, startTime and
\* status of that job, exactly when the registry holds a validation job in
\* status running, and running:false otherwise; it changes nothing but its
\* answer.
C15_StatusPureRead ==
    [][StatusGet =>
         /\ IF \E o \in Registered :
                  jobs[o].type = "validation" /\ jobs[o].status = "running"
            THEN \E o \in Registered :
                     /\ jobs[o].type = "validation"
                     /\ jobs[o].status = "running"
                     /\ reply' = Reply("status", "200", jobs[o].id,
                                       jobs[o].startTime, "running")
            ELSE reply' = Reply("status", "200", NoId, 0, "none")
         /\ UNCHANGED <<validationLock, activeJobs, jobs, closure, child,
                        nextObj, now, awaiting, serverFault, releases,
                        obs>>]_vars

\* The status query has answered running:true with the id and startTime of
\* the running validation job, launched after a sort job that is registered
\* and running too.
C15_Witness ==
    /\ reply.op = "status" /\ reply.status = "running"
    /\ reply.jobId = ValidationCurrent
    /\ reply.startTime > 1
    /\ reply.startTime = jobs[activeJobs[ValidationCurrent]].startTime
    /\ jobs[activeJobs[ValidationCurrent]].status = "running"
    /\ \E o \in Registered :
           /\ jobs[o].type = "sort" /\ jobs[o].status = "running"
           /\ jobs[o].startTime < reply.startTime

\* C16: a client that has learnt from the status query that validation job J
\* is running attaches by its reconnect to the progress stream of that job J,
\* and launches no job.
C16_Reattach ==
    [][\A k \in Observers :
         Reattach(k) =>
             /\ obs'[k].state # "idle"
             /\ obs'[k].job = Lookup(reply.jobId)
             /\ UNCHANGED <<activeJobs, jobs, nextObj>>]_vars

\* C17: connect, replay, poll tick, feed close and cancel change no job
\* record, process, registry entry or the lock; a cancel stops the poll timer
\* of its own connection and leaves every other connection as it was.
C17_StreamPureReader ==
    /\ [][(\E k \in Observers :
              \/ \E id \in JobIds : StreamConnect(k, id)
              \/ PollTick(k)
              \/ StreamCancel(k)) =>
            UNCHANGED <<validationLock, activeJobs, jobs, closure, child,
                        nextObj, releases, awaiting, serverFault>>]_vars
    /\ [][\A k \in Observers :
            StreamCancel(k) =>
                /\ ~obs'[k].timer
                /\ \A m \in Observers \ {k} : obs'[m] = obs[m]]_vars

\* One observer of a job cancelled; another observer of the same job went on
\* to receive every event, more than the first had, up to the terminal event
\* of the job, whose process was never signalled.
C17_Witness ==
    \E k, m \in Observers :
        /\ k # m
        /\ obs[k].state = "cancelled" /\ ~obs[k].timer
        /\ obs[m].state = "closed"
        /\ obs[m].job = obs[k].job
        /\ obs[m].sent = jobs[obs[m].job].events
        /\ Len(obs[m].sent) > Len(obs[k].sent)
        /\ jobs[obs[m].job].status = "complete"
        /\ ~child[obs[m].job].killed

\* The lines of an output, without the empty line a final newline leaves.
OutputLines(w) ==
    LET ls == Split(w)
    IN IF ls[Len(ls)] = <<>> THEN SubSeq(ls, 1, Len(ls) - 1) ELSE ls

\* k progress lines followed by one final-result line.
ProgressThenResult(w) ==
    LET ls == OutputLines(w)
    IN /\ Len(ls) >= 1
       /\ ls[Len(ls)] = <<"E">>
       /\ \A i \in 1..(Len(ls) - 1) :
              Len(ls[i]) = 1 /\ ls[i][1] \in ProgressTokens

\* C18: when the process of a running validation job has written k progress
\* lines followed by a final-result line and closes with code 0 or 1, the job
\* is left complete with that result, its events are the k progress events in
\* the order written followed by one complete event carrying the result, and
\* the lock is free for the next launch.
C18_HappyPath ==
    [][\A j \in Objs : \A code \in {0, 1} :
         (/\ ProcClose(j, code)
          /\ jobs[j].type = "validation"
          /\ jobs[j].status = "running"
          /\ ProgressThenResult(written[j])) =>
             LET ls == OutputLines(written[j])
             IN /\ jobs'[j].status = "complete"
                /\ jobs'[j].result = "E"
                /\ jobs'[j].events =
                       [i \in 1..(Len(ls) - 1) |-> ProgressEvent(ls[i][1])]
                           \o <<CompleteEvent("E")>>
                /\ ~validationLock'
                /\ tryAcquireValidationLock']_vars

\* A run wrote two different progress lines and an unterminated result line,
\* closed after a while, and is complete with three events ending in the
\* complete event; the lock was released once and is free.
C18_Witness ==
    \E a \in Objs :
        /\ written[a] = <<"P1", "n", "P2", "n", "E">>
        /\ jobs[a].status = "complete"
        /\ jobs[a].result = "E"
        /\ Len(jobs[a].events) = 3
        /\ jobs[a].events[3] = CompleteEvent("E")
        /\ jobs[a].endTime > jobs[a].startTime
        /\ releases[a] = 1
        /\ ~validationLock

\* C19: once every form action that saved a change has made its trigger
\* call, a validation run has started on the data as the last change left
\* them (a run that started at or after every change).
C19_ChangesValidated ==
    (store.version > 0 /\ store.pending = 0) =>
        \E o \in Objs :
            jobs[o].type = "validation" /\ seen[o] = store.version

\* C20: whatever the step (stdout data, error, close, sweeper tick, launch or
\* relaunch under the same id), the events of every job record before the
\* step are a prefix of its events after it: nothing is removed, changed or
\* reordered.
C20_EventsAppendOnly ==
    [][\A o \in Objs : IsPrefix(jobs[o].events, jobs'[o].events)]_vars

\* A job record holds a progress event, then the sweeper's timeout event, then
\* the event of its close, while a later launch under the same id has events
\* of its own.
C20_Witness ==
    \E a, b \in Objs :
        /\ a < b
        /\ Len(jobs[a].events) = 3
        /\ jobs[a].events[1] = ProgressEvent("P1")
        /\ jobs[a].events[2] = TimeoutEvent
        /\ jobs[b].id = jobs[a].id
        /\ jobs[b].type = jobs[a].type
        /\ jobs[b].events # <<>>

\* C21: a validation launch never overwrites or removes a registry entry whose
\* job is in status running: whenever a step puts a new job under
\* 'validation-current', or removes the entry, the job it held before was
\* absent or terminal.
C21_RunningNotOverwritten ==
    [][activeJobs'[ValidationCurrent] # activeJobs[ValidationCurrent] =>
         \/ activeJobs[ValidationCurrent] = Absent
         \/ Terminal(jobs[activeJobs[ValidationCurrent]].status)]_vars

\* The last value the clock takes.
LastTime == 1 + TickUnit * ((MaxTime - 1) \div TickUnit)

\* C22: with sweeper ticks that keep occurring, every job in status running
\* reaches status complete or error whether or not its process ever exits,
\* and every open feed attached to it is closed in the end. (Stated for the
\* jobs whose 30 minutes end before the clock stops.)
C22_EventuallyTerminal ==
    /\ \A o \in Objs :
           (jobs[o].status = "running"
               /\ jobs[o].startTime + JobTimeout < LastTime)
             ~> Terminal(jobs[o].status)
    /\ \A k \in Observers :
           (obs[k].state = "open"
               /\ jobs[obs[k].job].startTime + JobTimeout < LastTime)
             ~> obs[k].state = "closed"

\* C23: a sweeper tick removes a registry entry exactly when its job is
\* terminal and its endTime is more than the retention window (5 minutes)
\* before the tick; every other entry, a running job's or a younger terminal
\* job's, still maps to the same job after the tick.
C23_EvictionExact ==
    [][Sweep =>
         \A id \in JobIds :
             activeJobs[id] # Absent =>
                 LET job == jobs[activeJobs[id]]
                 IN IF Terminal(job.status) /\ now - job.endTime > Retention
                    THEN activeJobs'[id] = Absent
                    ELSE activeJobs'[id] = activeJobs[id]]_vars

\* A sort job that ended has been evicted (nothing else removes the entry of
\* a sort job), while a job that ended within the window is still registered
\* at a time later than its end.
C23_Witness ==
    \E a, b \in Objs :
        /\ jobs[a].type = "sort" /\ Terminal(jobs[a].status)
        /\ activeJobs[jobs[a].id] = Absent
        /\ now - jobs[a].endTime > Retention
        /\ Terminal(jobs[b].status)
        /\ activeJobs[jobs[b].id] = b
        /\ now - jobs[b].endTime <= Retention

\* A validation launch that answers success in this step.
LaunchSucceeds ==
    \E outcome \in SpawnOutcomes :
        \/ triggerBackgroundValidation(outcome) /\ reply'.code = "true"
        \/ \E bodyOk \in BOOLEAN :
               PostValidateResume(bodyOk, outcome) /\ reply'.code = "200"

\* A callback of the launch that created job record j runs in this step.
CallbackOf(j) ==
    \/ \E chunk \in Chunks : StdoutData(j, chunk)
    \/ ProcError(j)
    \/ \E code \in ExitCodes \cup {SpawnErrno} : ProcClose(j, code)

\* C24: after a successful validation launch 'validation-current' maps to a
\* new job record in status running with no events, result or endTime; a
\* callback of one launch leaves the record of every other launch, a newer
\* run's among them, as it was.
C24_FreshRecord ==
    /\ [][LaunchSucceeds =>
            /\ activeJobs'[ValidationCurrent] = nextObj
            /\ jobs[nextObj] = NoJob
            /\ jobs'[nextObj].status = "running"
            /\ jobs'[nextObj].events = <<>>
            /\ jobs'[nextObj].result = "unset"
            /\ jobs'[nextObj].endTime = Unset]_vars
    /\ [][\A j \in Objs :
            CallbackOf(j) => \A o \in Objs \ {j} : jobs'[o] = jobs[o]]_vars

\* The 'close' of an earlier run's process came after a newer run had been
\* launched: the earlier record holds its two events, the newer one is
\* registered, running, and has no events, result or endTime.
C24_Witness ==
    \E a, b \in Objs :
        /\ a < b
        /\ jobs[a].type = "validation" /\ jobs[b].type = "validation"
        /\ jobs[a].events = <<SpawnErrorEvent, ExitErrorEvent(SpawnErrno, <<>>)>>
        /\ jobs[a].endTime > jobs[b].startTime
        /\ activeJobs[ValidationCurrent] = b
        /\ jobs[b].status = "running"
        /\ jobs[b].events = <<>>
        /\ jobs[b].result = "unset" /\ jobs[b].endTime = Unset

\* C25: the sort launch, the output, error and close callbacks of a sort job,
\* and a sweeper tick that times out sort jobs only, leave the validation
\* lock as it was; a sort launch whose spawn returns answers 200 and
\* registers its job, and is possible, whether the lock is held or free.
C25_SortLeavesLock ==
    /\ [][(\E outcome \in SpawnOutcomes : PostSort(outcome)) =>
            UNCHANGED validationLock]_vars
    /\ [][\A outcome \in {"ok", "enoent"} :
            PostSort(outcome) =>
                reply'.code = "200" /\ activeJobs'[nextObj] = nextObj]_vars
    /\ [][\A j \in Objs :
            (jobs[j].type = "sort" /\ CallbackOf(j)) =>
                UNCHANGED validationLock]_vars
    /\ [][(/\ Sweep
           /\ SweepTimedOut(now) # {}
           /\ \A o \in SweepTimedOut(now) : jobs[o].type = "sort") =>
            UNCHANGED validationLock]_vars
    /\ [](\A held \in BOOLEAN :
            (validationLock = held /\ ~serverFault /\ nextObj <= MaxJobs) =>
                ENABLED PostSort("ok"))

\* The sweeper has timed out a sort job that had written a progress line,
\* while a validation job is running under the lock, which is still held.
C25_Witness ==
    \E s, v \in Objs :
        /\ jobs[s].type = "sort"
        /\ jobs[s].events = <<ProgressEvent("P1"), TimeoutEvent>>
        /\ jobs[s].endTime = now
        /\ jobs[v].type = "validation" /\ jobs[v].status = "running"
        /\ activeJobs[ValidationCurrent] = v
        /\ validationLock

\* C26: a final result captured from a complete line of the stream is the one
\* the close handler keeps: the trailing buffer does not replace it, and a
\* job that completes carries it as its result.
C26_CapturedResultKept ==
    [][\A j \in Objs : \A code \in ExitCodes \cup {SpawnErrno} :
         (ProcClose(j, code) /\ closure[j].finalResult # "null") =>
             /\ closure'[j].finalResult = closure[j].finalResult
             /\ jobs'[j].status = "complete" =>
                    jobs'[j].result = closure[j].finalResult]_vars

\* The lines a 'data' event with this chunk completes for launch j.
CompletedLines(j, chunk) ==
    LET lines == Split(closure[j].stdoutBuffer \o Decode(chunk))
    IN SubSeq(lines, 1, Len(lines) - 1)

\* The result-shaped field of a job type: 'errors', 'stats'.
MarkerOf(type) == IF type = "validation" THEN "E" ELSE "S"

\* C27: a 'data' event that completes one line which parses: if the object
\* has type 'progress' it is appended to events as parsed and the pending
\* result stays; otherwise, if it carries the marker of the job's kind, it
\* becomes the pending result and events stay; otherwise both stay.
C27_LineClassification ==
    [][\A j \in Objs : \A chunk \in ParseChunks :
         (StdoutDataKept(j, chunk) /\ Len(CompletedLines(j, chunk)) = 1) =>
             LET v == JsonParse(CompletedLines(j, chunk)[1])
                 sameEvents == jobs'[j].events = jobs[j].events
                 sameResult ==
                     closure'[j].finalResult = closure[j].finalResult
             IN /\ v \in ProgressTokens =>
                       /\ jobs'[j].events =
                              Append(jobs[j].events, ProgressEvent(v))
                       /\ sameResult
                /\ v = MarkerOf(jobs[j].type) =>
                       closure'[j].finalResult = v /\ sameEvents
                /\ (v \in JsonTokens \ ProgressTokens
                       /\ v # MarkerOf(jobs[j].type)) =>
                       sameEvents /\ sameResult]_vars

\* A running validation job whose process wrote a progress line, a line with
\* a 'stats' field and a line with an 'errors' field: one progress event, and
\* the 'errors' object as pending result.
C27_Witness ==
    \E j \in Objs :
        /\ jobs[j].type = "validation" /\ jobs[j].status = "running"
        /\ written[j] = <<"P1", "n", "S", "n", "E", "n">>
        /\ jobs[j].events = <<ProgressEvent("P1")>>
        /\ closure[j].finalResult = "E"

Parses(line) == JsonParse(line) # "fail"

\* C28: the lines a 'data' event completes that fail to parse count for
\* nothing: the events and the pending result after the event are those the
\* lines that do parse give on their own, in their order; the status stays,
\* every event appended is a progress event, and no exception escapes.
C28_ParseFailureIgnored ==
    [][\A j \in Objs : \A chunk \in ParseChunks :
         StdoutDataKept(j, chunk) =>
             LET st == ProcessLines(SelectSeq(CompletedLines(j, chunk), Parses),
                                    jobs[j].type,
                                    [events |-> jobs[j].events,
                                     finalResult |-> closure[j].finalResult])
             IN /\ jobs'[j].events = st.events
                /\ closure'[j].finalResult = st.finalResult
                /\ jobs'[j].status = jobs[j].status
                /\ \A i \in (Len(jobs[j].events) + 1)..Len(jobs'[j].events) :
                       jobs'[j].events[i].type = "progress"
                /\ ~serverFault']_vars

\* A process wrote a line that is no JSON and then a progress line: the job
\* is running with the progress event as its only event and no pending
\* result.
C28_Witness ==
    \E j \in Objs :
        /\ written[j] = <<"x", "n", "P1", "n">>
        /\ jobs[j].status = "running"
        /\ jobs[j].events = <<ProgressEvent("P1")>>
        /\ closure[j].finalResult = "null"

\* C29: what a launch has extracted from the output does not depend on the
\* chunks the output came in: whenever the process of a running job has
\* written text that ends in a newline, the events and the pending result are
\* those the handler gives when the whole text comes as one chunk.
C29_ChunkingIndependent ==
    \A j \in Objs :
        (/\ jobs[j].status = "running"
         /\ child[j].state = "running"
         /\ written[j] # <<>>
         /\ written[j][Len(written[j])] = "n") =>
            LET one == OnStdoutData(jobs[j].type, <<>>, NoClosure, written[j])
            IN /\ jobs[j].events = one.events
               /\ closure[j].finalResult = one.finalResult

\* C30: a job record has endTime set exactly when its status is complete or
\* error; a running job has none.
C30_EndTimeIffTerminal ==
    \A o \in Objs :
        /\ jobs[o].endTime # Unset <=> Terminal(jobs[o].status)
        /\ jobs[o].status = "running" => jobs[o].endTime = Unset

\* A job the sweeper timed out has the time of that tick as endTime, and a
\* job launched since is running with no endTime.
C30_Witness ==
    \E a, b \in Objs :
        /\ jobs[a].status = "error"
        /\ jobs[a].events # <<>>
        /\ jobs[a].events[Len(jobs[a].events)] = TimeoutEvent
        /\ jobs[a].endTime > jobs[a].startTime + JobTimeout
        /\ jobs[b].status = "running"
        /\ jobs[b].startTime >= jobs[a].endTime
        /\ jobs[b].endTime = Unset

\* C31: each stderr chunk is added to the end of the captured diagnostic
\* text, and a close with a code other than 0 or 1 appends one error event
\* that carries this code and all of the text captured until then.
C31_ExitErrorEvent ==
    /\ [][\A j \in Objs : \A chunk \in ErrChunks :
            StderrData(j, chunk) =>
                closure'[j].stderrBuffer = closure[j].stderrBuffer \o chunk]_vars
    /\ [][\A j \in Objs : \A code \in (ExitCodes \cup {SpawnErrno}) \ {0, 1} :
            ProcClose(j, code) =>
                jobs'[j].events =
                    Append(jobs[j].events,
                           [type |-> "error", val |-> "exit", code |-> code,
                            stderr |-> closure[j].stderrBuffer])]_vars

\* A sort job whose process wrote two pieces of diagnostic text and exited
\* with code 2: its only event is the error event with the code and both
\* pieces in the order written.
C31_Witness ==
    \E j \in Objs :
        /\ jobs[j].type = "sort"
        /\ jobs[j].status = "error"
        /\ Len(jobs[j].events) = 1
        /\ jobs[j].events[1].code = 2
        /\ jobs[j].events[1].stderr = <<"f", "e">>

FilterFlags == {"--json-files", "--logo-files", "--folder-names", "--store-ids"}

\* The flag that goes with a validation type, if any.
FilterOf(type) ==
    CASE type = "json_files" -> {"--json-files"}
      [] type = "logo_files" -> {"--logo-files"}
      [] type = "folder_names" -> {"--folder-names"}
      [] type = "store_ids" -> {"--store-ids"}
      [] OTHER -> {}

\* The positions of an argument list that hold one of the flags.
Positions(a, flags) == {i \in 1..Len(a) : a[i] \in flags}

\* C32: the arguments every launch passes to spawn hold '--json' and
\* '--progress'; those of POST /api/validate hold the filter flag of the
\* request's type once and no other filter flag, and none for 'full' or any
\* other type; those of triggerBackgroundValidation hold none; those of POST
\* /api/sort hold '--dry-run' exactly if dryRun and '--validate' exactly if
\* runValidation.
C32_ArgsOfRequest ==
    [][\A outcome \in SpawnOutcomes :
         LET a == argv'[nextObj]
             structured ==
                 Positions(a, {"--json"}) # {}
                     /\ Positions(a, {"--progress"}) # {}
         IN /\ \A type \in RequestTypes :
                   PostValidateRequest(TRUE, type, outcome) =>
                       /\ structured
                       /\ Positions(a, FilterFlags) = Positions(a, FilterOf(type))
                       /\ Cardinality(Positions(a, FilterFlags)) =
                              Cardinality(FilterOf(type))
            /\ (triggerBackgroundValidation(outcome) /\ nextObj' # nextObj) =>
                   structured /\ Positions(a, FilterFlags) = {}
            /\ \A dryRun \in BOOLEAN : \A runValidation \in BOOLEAN :
                   PostSortRequest(outcome, dryRun, runValidation) =>
                       /\ structured
                       /\ Positions(a, {"--dry-run"}) # {} <=> dryRun
                       /\ Positions(a, {"--validate"}) # {} <=> runValidation]_vars

\* A validation launched for type store_ids and a sort launched with dryRun
\* and without runValidation: the first got '--store-ids' after the two
\* output flags, the second '--dry-run' and no '--validate'.
C32_Witness ==
    \E a, b \in Objs :
        /\ jobs[a].type = "validation"
        /\ argv[a] = <<"-m", "ofd", "validate", "--json", "--progress",
                       "--store-ids">>
        /\ jobs[b].type = "sort"
        /\ argv[b] = <<"-m", "ofd", "script", "style_data", "--json",
                       "--progress", "--dry-run">>

\* C33: the events of every job hold at most one terminal event (complete or
\* error), and a terminal event is the last element: nothing is appended
\* after it.
C33_OneTerminalEvent ==
    \A o \in Objs :
        \A i \in 1..Len(jobs[o].events) :
            TerminalEvent(jobs[o].events[i]) => i = Len(jobs[o].events)

\* C34: whenever the registry holds a validation job in status running the
\* lock is held: with the lock free the status query finds no running
\* validation job.
C34_RegisteredRunningLocked ==
    /\ (\E o \in Registered :
           jobs[o].type = "validation" /\ jobs[o].status = "running") =>
           validationLock
    /\ ~validationLock => getActiveValidationJob = Absent

\* C35: when POST /api/validate answers 500 after it had acquired the lock
\* (a body that cannot be read, or a throw while the job is created or
\* spawned), the lock is free on return and the registry holds no running
\* validation job that this request created.
C35_FailedPostLeavesNothing ==
    [][\A bodyOk \in BOOLEAN : \A outcome \in SpawnOutcomes :
         (PostValidateResume(bodyOk, outcome) /\ reply'.code = "500") =>
             /\ ~validationLock'
             /\ ~\E o \in Objs :
                    /\ jobs[o] = NoJob
                    /\ activeJobs'[ValidationCurrent] = o
                    /\ jobs'[o].status = "running"]_vars

\* The events a step appends to job record o.
Appended(o) ==
    {jobs'[o].events[i] :
        i \in (Len(jobs[o].events) + 1)..Len(jobs'[o].events)}

\* C36: whatever the process writes, a 'data' event appends events of type
\* progress only; an event of type complete or error is appended only in a
\* step of the error handler or the close handler of that job's launch, or
\* of the sweeper.
C36_NoInjectedTerminal ==
    /\ [][\A j \in Objs : \A chunk \in InjectChunks :
            StdoutDataKept(j, chunk) =>
                \A e \in Appended(j) : e.type = "progress"]_vars
    /\ [][\A o \in Objs :
            (\E e \in Appended(o) : TerminalEvent(e)) =>
                \/ ProcError(o)
                \/ \E code \in ExitCodes \cup {SpawnErrno} : ProcClose(o, code)
                \/ Sweep]_vars

\* A process wrote a line with type 'complete', a progress line and an
\* unterminated text with type 'complete', and exited with code 0: the events
\* are the progress event and the one complete event of the close handler.
C36_Witness ==
    \E j \in Objs :
        /\ written[j] = <<"T", "n", "P1", "n", "T">>
        /\ jobs[j].status = "complete"
        /\ jobs[j].events = <<ProgressEvent("P1"), CompleteEvent("T")>>

\* C37: a stream connect for an id the registry does not hold, never
\* launched or evicted since, is answered 404: no connection is attached, no
\* event sent, no poll timer started, and nothing but the answer changes.
C37_UnknownJobNotFound ==
    [][\A k \in Observers : \A id \in JobIds :
         (StreamConnect(k, id) /\ activeJobs[id] = Absent) =>
             /\ reply' = Reply("stream", "404", NoId, 0, "none")
             /\ obs' = obs
             /\ UNCHANGED <<validationLock, activeJobs, jobs, closure, child,
                            nextObj, now, awaiting, serverFault, releases,
                            written, store, seen, argv>>]_vars

\* A connect has just been answered 404 while no connection is attached and
\* the one job there was, ended with events, has been evicted by the sweeper.
C37_Witness ==
    /\ reply = Reply("stream", "404", NoId, 0, "none")
    /\ \A k \in Observers : obs[k] = NoObs
    /\ nextObj > 1
    /\ \A id \in JobIds : activeJobs[id] = Absent
    /\ \E o \in Objs :
           /\ Terminal(jobs[o].status)
           /\ jobs[o].events # <<>>
           /\ now - jobs[o].endTime > Retention

\* The EventSource objects of the hook that are not closed.
OpenSources == {e \in Sources : sse.ready[e] = "open"}

\* C38: a useSSE instance holds at most one open connection at any time:
\* connect closes the connection the hook held before it opens the new one,
\* the connection is closed right after a complete or error event was
\* dispatched to its handler and after a connection error, and a
\* disconnect after a disconnect changes nothing.
C38_OneConnectionClosedOnTerminal ==
    [][/\ Cardinality({e \in Sources : sse'.ready[e] = "open"}) <= 1
       /\ \A hs \in SUBSET HandlerNames :
            (SseConnect(hs) /\ sse.eventSource # 0) =>
                /\ sse'.ready[sse.eventSource] = "closed"
                /\ sse'.eventSource # sse.eventSource
       /\ \A e \in Sources, data \in {"complete", "error"},
             throws \in BOOLEAN :
            (/\ SseMessage(e, data, throws)
             /\ HandlerFor(data, sse.handlers[e]) # "none") =>
                sse'.ready[e] = "closed"
       /\ \A e \in Sources, throws \in BOOLEAN :
            SseError(e, throws) => sse'.ready[e] = "closed"
       /\ SseDisconnect =>
            /\ sse'.eventSource = 0
            /\ OpenSources' = {}
            /\ disconnect(sse') = sse']_vars

====
